---- MODULE Spec2Model ----
(***************************************************************************)
(* A model of kedro.extras.datasets.pandas.GenericDataSet: the adapter     *)
(* that dispatches load/save to pandas' "read_<format>" / "to_<format>"    *)
(* through a file handle of an fsspec filesystem.                          *)
(*                                                                         *)
(* Strings whose characters matter (the file format, attribute names) are  *)
(* sequences of one-character strings.  Python dicts are sets of           *)
(* <<key, value>> pairs with unique keys.  A path is a number: 0 is the    *)
(* adapter's filepath, v > 0 the versioned path filepath/<v>/<name>.       *)
(***************************************************************************)
EXTENDS Integers, Sequences, FiniteSets

VARIABLES
    ds,       \* the adapter (self), or NoAdapter before construction
    args,     \* the arguments the constructor was called with
    fs,       \* the filesystem backend: content, cache, open handles
    last      \* the last call: operation, outcome, value, backend calls made

vars == <<ds, args, fs, last>>

----------------------------------------------------------------------------
(* Bounds *)

MaxVer == 2      \* versions 1..MaxVer
MaxVal == 2      \* distinct column values a saved frame may hold

Versions == 1..MaxVer
Paths == 0..MaxVer

----------------------------------------------------------------------------
(* Strings as character sequences *)

UPPER == <<"A","B","C","D","E","F","G","H","I","J","K","L","M",
           "N","O","P","Q","R","S","T","U","V","W","X","Y","Z">>
LOWER == <<"a","b","c","d","e","f","g","h","i","j","k","l","m",
           "n","o","p","q","r","s","t","u","v","w","x","y","z">>

\* str.lower() on one character
LowerChar(c) ==
    IF \E i \in 1..26 : UPPER[i] = c
    THEN LOWER[CHOOSE i \in 1..26 : UPPER[i] = c]
    ELSE c

\* Mutant: the format is stored as given.
NotLowered(s) == s

\* str.lower()
lower(s) == [i \in 1..Len(s) |-> LowerChar(s[i])]

csv         == <<"c","s","v">>
sas         == <<"s","a","s">>
latex       == <<"l","a","t","e","x">>
totallyfake == <<"t","o","t","a","l","l","y","f","a","k","e">>
clipboard   == <<"c","l","i","p","b","o","a","r","d">>
numpy       == <<"n","u","m","p","y">>
sql         == <<"s","q","l">>
period      == <<"p","e","r","i","o","d">>
records     == <<"r","e","c","o","r","d","s">>
timestamp   == <<"t","i","m","e","s","t","a","m","p">>
xarray      == <<"x","a","r","r","a","y">>
sql_table   == <<"s","q","l","_","t","a","b","l","e">>

NON_FILE_SYSTEM_TARGETS ==
    <<clipboard, numpy, sql, period, records, timestamp, xarray, sql_table>>

\* x in a_list
InList(x, list) == \E i \in 1..Len(list) : list[i] = x

\* f"read_{fmt}" and f"to_{fmt}"
read_(fmt) == <<"r","e","a","d","_">> \o fmt
to_(fmt)   == <<"t","o","_">> \o fmt

\* The names the pandas module defines, as far as the formats here go.
PandasModule ==
    { read_(csv), read_(sas), read_(clipboard), read_(sql), read_(sql_table) }

\* The attributes of a pandas.DataFrame, as far as the formats here go
\* (there is no DataFrame.to_sas).
DataFrameAttrs ==
    { to_(csv), to_(latex), to_(clipboard), to_(numpy), to_(sql), to_(period),
      to_(records), to_(timestamp), to_(xarray) }

\* getattr(obj, name, None) is truthy
HasAttr(namespace, name) == name \in namespace

----------------------------------------------------------------------------
(* Python dicts *)

Has(d, k) == \E p \in d : p[1] = k
Get(d, k, default) == IF Has(d, k) THEN (CHOOSE p \in d : p[1] = k)[2] ELSE default
\* the dict that d.pop(k, default) leaves
Popped(d, k) == {p \in d : p[1] # k}
\* Mutant: d[k] = v, whatever d holds.
Assigned(d, k, v) == {p \in d : p[1] # k} \cup {<<k, v>>}

\* d.setdefault(k, v)
SetDefault(d, k, v) == IF Has(d, k) THEN d ELSE d \cup {<<k, v>>}
\* d.update(e)
Update(d, e) == {p \in d : ~Has(e, p[1])} \cup e

\* The values of fs_args: a plain option, or a nested dict of open options.
Opt(s)    == [kind |-> "opt", s |-> s, d |-> {}]
Nested(d) == [kind |-> "dict", s |-> "", d |-> d]

----------------------------------------------------------------------------
(* Values: data frames and file contents *)

\* A frame: its index (0 is the default RangeIndex) and its columns.
Frame(index, cols) == [index |-> index, cols |-> cols]
NoFrame == Frame(0, <<>>)
\* The frames a caller saves: default index, one column.
Frames == {Frame(0, <<c>>) : c \in 1..MaxVal}

\* A file: absent, or the sequence of columns written to it.
File(cols) == [there |-> TRUE, cols |-> cols]
NoFile == [there |-> FALSE, cols |-> <<>>]
\* A file some earlier run left behind.
OldFile == File(<<MaxVal + 1>>)

\* DataFrame.to_<format>(fs_file, **save_args): the columns written. to_csv
\* writes the index as a first column unless index=False is passed.
Writer(name, data, save_args) ==
    IF name = to_(csv) /\ Get(save_args, "index", "True") = "True"
    THEN <<data.index>> \o data.cols
    ELSE data.cols

\* pandas.read_<format>(fs_file, **load_args): the frame parsed. read_csv
\* takes every column as data unless index_col names the index column.
Reader(name, cols, load_args) ==
    IF name = read_(csv) /\ Has(load_args, "index_col")
    THEN Frame(Head(cols), Tail(cols))
    ELSE Frame(0, cols)

----------------------------------------------------------------------------
(* The filesystem backend (fsspec), with a cache that is never refreshed   *)
(* by a write: only invalidate_cache drops an entry.                       *)

READ_MODES  == {"r", "rb"}
\* AbstractFileSystem.open(path, mode="rb", ...)
FS_DEFAULT_MODE == "rb"

NewFs(content) ==
    [content |-> content,
     ex      |-> [p \in Paths |-> "none"],
     ls      |-> [valid |-> FALSE, vs |-> {}],
     handles |-> 0]

\* fs.exists(path): the cached answer when there is one
fs_exists(f, p) ==
    IF f.ex[p] # "none"
    THEN [val |-> (f.ex[p] = "present"), fs |-> f]
    ELSE [val |-> f.content[p].there,
          fs  |-> [f EXCEPT !.ex[p] =
                      IF f.content[p].there THEN "present" ELSE "absent"]]

\* fs.glob(filepath/*/name): the versions listed, from the cached listing
\* when there is one
fs_glob(f) ==
    IF f.ls.valid
    THEN [val |-> f.ls.vs, fs |-> f]
    ELSE LET vs == {v \in Versions : f.content[v].there}
         IN [val |-> vs, fs |-> [f EXCEPT !.ls = [valid |-> TRUE, vs |-> vs]]]

\* fs.invalidate_cache(path): drops the entry of path and of its parents
\* (the filepath is the parent directory of every versioned path)
fs_invalidate_cache(f, p) ==
    [f EXCEPT !.ex = [q \in Paths |-> IF q = p \/ q = 0 THEN "none" ELSE @[q]],
              !.ls = [valid |-> FALSE, vs |-> {}]]

\* fs.open(path, **open_args): a handle, or FileNotFoundError when a file
\* opened for reading is absent. Opening for writing creates or truncates.
fs_open(f, p, open_args) ==
    LET mode == Get(open_args, "mode", FS_DEFAULT_MODE) IN
    IF mode \in READ_MODES
    THEN IF f.content[p].there
         THEN [ok |-> TRUE, mode |-> mode,
               fs |-> [f EXCEPT !.handles = @ + 1]]
         ELSE [ok |-> FALSE, mode |-> mode, fs |-> f]
    ELSE [ok |-> TRUE, mode |-> mode,
          fs |-> [f EXCEPT !.handles = @ + 1, !.content[p] = File(<<>>)]]

\* the handle's close
fs_close(f) == [f EXCEPT !.handles = @ - 1]

\* writing cols through the handle open on p
fs_write(f, p, cols) == [f EXCEPT !.content[p] = File(cols)]

----------------------------------------------------------------------------
(* The versioning collaborator (kedro.io.core.AbstractVersionedDataSet)     *)

Max(S) == CHOOSE x \in S : \A y \in S : y <= x

\* the first of the globbed versions, latest first, that exists
RECURSIVE MostRecent(_, _)
MostRecent(f, vs) ==
    IF vs = {} THEN [found |-> 0, fs |-> f]
    ELSE LET v == Max(vs)
             e == fs_exists(f, v)
         IN IF e.val THEN [found |-> v, fs |-> e.fs]
            ELSE MostRecent(e.fs, vs \ {v})

\* _get_load_path(): fails when the load version is unset and no version exists
_get_load_path(self, f) ==
    IF ~self.version.on THEN [ok |-> TRUE, path |-> 0, fs |-> f]
    ELSE IF self.version.load # 0
    THEN [ok |-> TRUE, path |-> self.version.load, fs |-> f]
    ELSE LET g == fs_glob(f)
             m == MostRecent(g.fs, g.val)
         IN [ok |-> m.found # 0, path |-> m.found, fs |-> m.fs]

\* a generated save version: a timestamp later than every version there is
generate_timestamp(f) ==
    IF \E v \in Versions : f.content[v].there
    THEN Max({v \in Versions : f.content[v].there}) + 1
    ELSE 1

\* _get_save_path(): may allocate a new version; fails when the versioned
\* save path already exists
_get_save_path(self, f) ==
    IF ~self.version.on THEN [ok |-> TRUE, path |-> 0, fs |-> f]
    ELSE LET v == IF self.version.save # 0 THEN self.version.save
                  ELSE generate_timestamp(f)
             e == fs_exists(f, v)
         IN [ok |-> ~e.val, path |-> v, fs |-> e.fs]

----------------------------------------------------------------------------
(* Calls, their outcomes and the backend calls they make *)

\* One call on a collaborator: its name, the path it was about, the options
\* passed, the mode a file was opened in, whether it succeeded, what it
\* answered.
Ev(call, path, opts, mode, ok, ret) ==
    [call |-> call, path |-> path, opts |-> opts, mode |-> mode,
     ok |-> ok, ret |-> ret]

NoDesc ==
    [file_format |-> <<>>, filepath |-> 0, protocol |-> "", load_args |-> {},
     save_args |-> {}, version |-> [on |-> FALSE, load |-> 0, save |-> 0]]

\* What a call leaves: the adapter, the filesystem, the error raised
\* ("none": it returned), the attribute name an error message names, the
\* value returned and the calls made.
Outcome(self, f, err, name, flag, frame, desc, log) ==
    [self |-> self, fs |-> f, err |-> err, name |-> name, flag |-> flag,
     frame |-> frame, desc |-> desc, log |-> log]

Raise(self, f, err, name, log) ==
    Outcome(self, f, err, name, FALSE, NoFrame, NoDesc, log)

\* the close event of a with block, when the block's exit closed the handle
CloseEv(before, after, path) ==
    IF after.handles < before.handles
    THEN <<Ev("close", path, {}, "", TRUE, FALSE)>>
    ELSE <<>>

----------------------------------------------------------------------------
(* GenericDataSet *)

DEFAULT_LOAD_ARGS == {}
DEFAULT_SAVE_ARGS == {}

\* An optional argument: None, or a value.
None == [given |-> FALSE, d |-> {}]
Some(d) == [given |-> TRUE, d |-> d]

NoVersion == [on |-> FALSE, load |-> 0, save |-> 0]
\* Version(load, save); 0 stands for None
Version(l, s) == [on |-> TRUE, load |-> l, save |-> s]

NoAdapter ==
    [built |-> FALSE, file_format |-> <<>>, protocol |-> "", filepath |-> 0,
     version |-> NoVersion, load_args |-> {}, save_args |-> {},
     fs_open_args_load |-> {}, fs_open_args_save |-> {}, fs_kwargs |-> {}]

\* get_protocol_and_path(filepath): the scheme prefix, or the local scheme
get_protocol_and_path(filepath) ==
    IF filepath.scheme = "" THEN "file" ELSE filepath.scheme

\* the fields __init__ sets
NewSelf(a) ==
    LET file_format == lower(a.file_format)
        fs_args0 == a.fs_args.d                       \* deepcopy(fs_args) or {}
        open_load == Get(fs_args0, "open_args_load", Nested({})).d
        fs_args1 == Popped(fs_args0, "open_args_load")
        open_save == Get(fs_args1, "open_args_save", Nested({})).d
        fs_args2 == Popped(fs_args1, "open_args_save")
        credentials == a.credentials.d                \* deepcopy(credentials) or {}
        protocol == get_protocol_and_path(a.filepath)
        fs_args3 == IF protocol = "file"
                    THEN SetDefault(fs_args2, "auto_mkdir", Opt("True"))
                    ELSE fs_args2
        load_args == IF a.load_args.given
                     THEN Update(DEFAULT_LOAD_ARGS, a.load_args.d)
                     ELSE DEFAULT_LOAD_ARGS
        save_args == IF a.save_args.given
                     THEN Update(DEFAULT_SAVE_ARGS, a.save_args.d)
                     ELSE DEFAULT_SAVE_ARGS
    IN [built |-> TRUE,
        file_format |-> file_format,
        protocol |-> protocol,
        filepath |-> 0,
        version |-> a.version,
        load_args |-> load_args,
        save_args |-> save_args,
        fs_open_args_load |-> open_load,
        fs_open_args_save |-> SetDefault(open_save, "mode", "w"),
        fs_kwargs |-> Update(credentials, fs_args3)]

\* Mutant: the constructor validates the format, as its docstring announces.
InitValidating(a) ==
    IF ~HasAttr(PandasModule, read_(lower(a.file_format)))
       /\ ~HasAttr(DataFrameAttrs, to_(lower(a.file_format)))
    THEN [err |-> "DataSetError", self |-> NoAdapter]
    ELSE [err |-> "none", self |-> NewSelf(a)]

\* __init__(filepath, file_format, load_args, save_args, version,
\*          credentials, fs_args): it raises nothing of its own
__init__(a) == [err |-> "none", self |-> NewSelf(a)]


\* _ensure_file_system_target(): TRUE when it raises DataSetError
_ensure_file_system_target(self) ==
    InList(self.file_format, NON_FILE_SYSTEM_TARGETS)

\* Mutant: the handle is closed after the block, not by a with statement.
CloseAfterBlock(f, raised) == IF raised THEN f ELSE fs_close(f)

\* the exit of a with block over an open file: the handle is closed,
\* whether the block returned or raised
with_exit(f, raised) == fs_close(f)

\* getattr(pd, f"read_{self._file_format}", None) is truthy
load_method(self) == HasAttr(PandasModule, read_(self.file_format))

\* Mutant: the writer is looked up on the pandas module, by the reader's name.
SaveMethodAmongReaders(self, data) == HasAttr(PandasModule, read_(self.file_format))

\* getattr(data, f"to_{self._file_format}", None) is truthy; every value
\* saved here is a DataFrame
save_method(self, data) == HasAttr(DataFrameAttrs, to_(self.file_format))

\* _invalidate_cache()
_invalidate_cache(self, f) == fs_invalidate_cache(f, self.filepath)

InvalidateEv(self, ok) == Ev("invalidate_cache", self.filepath, {}, "", ok, FALSE)

\* Mutant: the reader is looked up before the load path is resolved.
LoadLookupFirst(self, f, e) ==
    IF _ensure_file_system_target(self)
    THEN Raise(self, f, "unsupported_target", <<>>, <<>>)
    ELSE IF ~load_method(self)
    THEN Raise(self, f, "reader_not_found", read_(self.file_format), <<>>)
    ELSE
    LET r == _get_load_path(self, f)
        ev1 == Ev("get_load_path", r.path, {}, "", r.ok, FALSE)
    IN
    IF ~r.ok THEN Raise(self, r.fs, "path_resolution", <<>>, <<ev1>>)
    ELSE
    LET o == fs_open(r.fs, r.path, self.fs_open_args_load)
        ev2 == Ev("open", r.path, self.fs_open_args_load, o.mode, o.ok, FALSE)
    IN
    IF ~o.ok THEN Raise(self, o.fs, "FileNotFoundError", <<>>, <<ev1, ev2>>)
    ELSE
    LET cols == o.fs.content[r.path].cols
        raised == e.rfail \/ cols = <<>>
        x == with_exit(o.fs, raised)
        log == <<ev1, ev2, Ev("read", r.path, self.load_args, "", ~raised, FALSE)>>
               \o CloseEv(o.fs, x, r.path)
    IN IF raised THEN Raise(self, x, "reader_error", <<>>, log)
       ELSE Outcome(self, x, "none", <<>>, FALSE,
                    Reader(read_(self.file_format), cols, self.load_args),
                    NoDesc, log)

\* _load(); e.rfail: the reader raises
_load(self, f, e) ==
    IF _ensure_file_system_target(self)
    THEN Raise(self, f, "unsupported_target", <<>>, <<>>)
    ELSE
    LET r == _get_load_path(self, f)
        ev1 == Ev("get_load_path", r.path, {}, "", r.ok, FALSE)
        name == read_(self.file_format)
    IN
    IF ~r.ok THEN Raise(self, r.fs, "path_resolution", <<>>, <<ev1>>)
    ELSE IF load_method(self)
    THEN LET o == fs_open(r.fs, r.path, self.fs_open_args_load)
             ev2 == Ev("open", r.path, self.fs_open_args_load, o.mode, o.ok, FALSE)
         IN
         IF ~o.ok THEN Raise(self, o.fs, "FileNotFoundError", <<>>, <<ev1, ev2>>)
         ELSE
         LET cols == o.fs.content[r.path].cols
             raised == e.rfail \/ cols = <<>>
             x == with_exit(o.fs, raised)
             log == <<ev1, ev2, Ev("read", r.path, self.load_args, "", ~raised, FALSE)>>
                    \o CloseEv(o.fs, x, r.path)
         IN IF raised THEN Raise(self, x, "reader_error", <<>>, log)
            ELSE Outcome(self, x, "none", <<>>, FALSE,
                         Reader(name, cols, self.load_args), NoDesc, log)
    ELSE Raise(self, r.fs, "reader_not_found", name, <<ev1>>)

\* _save(data); e.wfail: the writer raises, e.ifail: invalidate_cache raises
_save(self, f, data, e) ==
    IF _ensure_file_system_target(self)
    THEN Raise(self, f, "unsupported_target", <<>>, <<>>)
    ELSE
    LET r == _get_save_path(self, f)
        ev1 == Ev("get_save_path", r.path, {}, "", r.ok, FALSE)
        name == to_(self.file_format)
    IN
    IF ~r.ok THEN Raise(self, r.fs, "path_resolution", <<>>, <<ev1>>)
    ELSE IF save_method(self, data)
    THEN LET o == fs_open(r.fs, r.path, self.fs_open_args_save)
             ev2 == Ev("open", r.path, self.fs_open_args_save, o.mode, o.ok, FALSE)
         IN
         IF ~o.ok THEN Raise(self, o.fs, "FileNotFoundError", <<>>, <<ev1, ev2>>)
         ELSE IF e.wfail
         THEN LET x == with_exit(o.fs, TRUE)
              IN Raise(self, x, "writer_error", <<>>,
                       <<ev1, ev2, Ev("write", r.path, self.save_args, "", FALSE, FALSE)>>
                       \o CloseEv(o.fs, x, r.path))
         ELSE
         LET w == fs_write(o.fs, r.path, Writer(name, data, self.save_args))
             ev3 == Ev("write", r.path, self.save_args, "", TRUE, FALSE)
         IN IF e.ifail
            THEN LET x == with_exit(w, TRUE)
                 IN Raise(self, x, "cache_error", <<>>,
                          <<ev1, ev2, ev3, InvalidateEv(self, FALSE)>>
                          \o CloseEv(w, x, r.path))
            ELSE LET i == _invalidate_cache(self, w)
                     x == with_exit(i, FALSE)
                 IN Outcome(self, x, "none", <<>>, FALSE, NoFrame, NoDesc,
                            <<ev1, ev2, ev3, InvalidateEv(self, TRUE)>>
                            \o CloseEv(i, x, r.path))
    ELSE Raise(self, r.fs, "writer_not_found", name, <<ev1>>)

\* Mutant: the resolution error is not caught.
ExistsUncaught(self, f) ==
    LET r == _get_load_path(self, f)
        ev1 == Ev("get_load_path", r.path, {}, "", r.ok, FALSE)
    IN IF ~r.ok
       THEN Raise(self, r.fs, "path_resolution", <<>>, <<ev1>>)
       ELSE LET x == fs_exists(r.fs, r.path)
            IN Outcome(self, x.fs, "none", <<>>, x.val, NoFrame, NoDesc,
                       <<ev1, Ev("exists", r.path, {}, "", TRUE, x.val)>>)

\* _exists()
_exists(self, f) ==
    LET r == _get_load_path(self, f)
        ev1 == Ev("get_load_path", r.path, {}, "", r.ok, FALSE)
    IN IF ~r.ok
       THEN Outcome(self, r.fs, "none", <<>>, FALSE, NoFrame, NoDesc, <<ev1>>)
       ELSE LET x == fs_exists(r.fs, r.path)
            IN Outcome(self, x.fs, "none", <<>>, x.val, NoFrame, NoDesc,
                       <<ev1, Ev("exists", r.path, {}, "", TRUE, x.val)>>)

\* Mutant: the description is built in the adapter's own load_args dict.
DescribeInPlace(self, f) ==
    LET d == Update(self.load_args, {<<"file_format", "described">>})
    IN Outcome([self EXCEPT !.load_args = d], f, "none", <<>>, FALSE, NoFrame,
               [file_format |-> self.file_format, filepath |-> self.filepath,
                protocol |-> self.protocol, load_args |-> d,
                save_args |-> self.save_args, version |-> self.version],
               <<>>)

\* _describe()
_describe(self, f) ==
    Outcome(self, f, "none", <<>>, FALSE, NoFrame,
            [file_format |-> self.file_format, filepath |-> self.filepath,
             protocol |-> self.protocol, load_args |-> self.load_args,
             save_args |-> self.save_args, version |-> self.version],
            <<>>)

\* _release(): super()._release(), then _invalidate_cache()
_release(self, f, e) ==
    IF e.ifail
    THEN Raise(self, f, "cache_error", <<>>, <<InvalidateEv(self, FALSE)>>)
    ELSE Outcome(self, _invalidate_cache(self, f), "none", <<>>, FALSE, NoFrame,
                 NoDesc, <<InvalidateEv(self, TRUE)>>)

----------------------------------------------------------------------------
(* The arguments callers construct the adapter with *)

FileFormats ==
    { csv, sas, latex, totallyfake,
      clipboard, <<"C","L","I","P","B","O","A","R","D">>, numpy, sql,
      <<"S","q","l">>, period, records, timestamp, xarray, sql_table }

VersionArgs == {NoVersion} \cup {Version(l, s) : l \in 0..MaxVer, s \in 0..MaxVer}

LocalFile == [scheme |-> "", path |-> "test.csv"]
S3File    == [scheme |-> "s3", path |-> "bucket/test.csv"]

\* filepath, load_args, save_args, credentials and fs_args
Kwargs ==
    { [filepath |-> LocalFile, load_args |-> None, save_args |-> None,
       credentials |-> None, fs_args |-> None],
      [filepath |-> S3File,
       load_args |-> Some({<<"index_col", "0">>}),
       save_args |-> Some({<<"index", "False">>}),
       credentials |-> Some({<<"token", Opt("t")>>}),
       fs_args |-> Some({<<"project", Opt("p")>>,
                         <<"open_args_load", Nested({<<"mode", "r">>})>>,
                         <<"open_args_save", Nested({<<"mode", "wb">>})>>})],
      [filepath |-> LocalFile,
       load_args |-> None,
       save_args |-> Some({<<"index", "False">>}),
       credentials |-> None,
       fs_args |-> Some({<<"open_args_save",
                           Nested({<<"compression", "gzip">>})>>})],
      [filepath |-> S3File,
       load_args |-> Some({<<"index_col", "0">>}),
       save_args |-> None,
       credentials |-> None,
       fs_args |-> Some({<<"open_args_load",
                           Nested({<<"encoding", "utf-8">>})>>})] }

CtorArgs ==
    { [filepath |-> k.filepath, file_format |-> ff, load_args |-> k.load_args,
       save_args |-> k.save_args, version |-> v, credentials |-> k.credentials,
       fs_args |-> k.fs_args] :
      k \in Kwargs, ff \in FileFormats, v \in VersionArgs }

NoArgs ==
    [filepath |-> [scheme |-> "", path |-> ""], file_format |-> <<>>,
     load_args |-> None, save_args |-> None, version |-> NoVersion,
     credentials |-> None, fs_args |-> None]

----------------------------------------------------------------------------
(* The state machine: one adapter, constructed once, then called *)

\* the call before: whether it was a save that returned, what it saved, where
NoPrev == [saved |-> FALSE, data |-> NoFrame, path |-> 0]
Prev(before) ==
    IF before.op = "save" /\ before.err = "none"
    THEN [saved |-> TRUE, data |-> before.data, path |-> before.path]
    ELSE NoPrev

\* the files earlier runs may have left
InitialFiles == { {}, {0, 1}, {0, MaxVer} }

\* the record of a call: what it was, what it left, and the call before it
Called(op, r, data, before) ==
    [op |-> op, err |-> r.err, name |-> r.name, flag |-> r.flag,
     frame |-> r.frame, desc |-> r.desc, log |-> r.log, data |-> data,
     path |-> IF r.log = <<>> THEN 0 ELSE r.log[1].path,
     prev |-> Prev(before)]

Init ==
    /\ ds = NoAdapter
    /\ args = NoArgs
    /\ \E there \in InitialFiles :
         fs = NewFs([p \in Paths |-> IF p \in there THEN OldFile ELSE NoFile])
    /\ last = [op |-> "none", err |-> "none", name |-> <<>>, flag |-> FALSE,
               frame |-> NoFrame, desc |-> NoDesc, log |-> <<>>,
               data |-> NoFrame, path |-> 0, prev |-> NoPrev]

Construct ==
    /\ ~ds.built
    /\ \E a \in CtorArgs :
         LET r == __init__(a)
         IN /\ ds' = IF r.err = "none" THEN r.self ELSE ds
            /\ args' = a
            /\ last' = Called("init",
                              Raise(ds, fs, r.err, <<>>, <<>>), NoFrame, last)
    /\ UNCHANGED fs

Load ==
    /\ ds.built
    /\ \E rfail \in BOOLEAN :
         LET r == _load(ds, fs, [rfail |-> rfail])
         IN /\ ds' = r.self
            /\ fs' = r.fs
            /\ last' = Called("load", r, NoFrame, last)
    /\ UNCHANGED args

Save ==
    /\ ds.built
    \* versions are bounded: no version is generated beyond MaxVer
    /\ (ds.version.on /\ ds.version.save = 0) => generate_timestamp(fs) <= MaxVer
    /\ \E data \in Frames, wfail \in BOOLEAN, ifail \in BOOLEAN :
         LET r == _save(ds, fs, data, [wfail |-> wfail, ifail |-> ifail])
         IN /\ ds' = r.self
            /\ fs' = r.fs
            /\ last' = Called("save", r, data, last)
    /\ UNCHANGED args

Exists ==
    /\ ds.built
    /\ LET r == _exists(ds, fs)
       IN /\ ds' = r.self
          /\ fs' = r.fs
          /\ last' = Called("exists", r, NoFrame, last)
    /\ UNCHANGED args

Describe ==
    /\ ds.built
    /\ LET r == _describe(ds, fs)
       IN /\ ds' = r.self
          /\ fs' = r.fs
          /\ last' = Called("describe", r, NoFrame, last)
    /\ UNCHANGED args

Release ==
    /\ ds.built
    /\ \E ifail \in BOOLEAN :
         LET r == _release(ds, fs, [ifail |-> ifail])
         IN /\ ds' = r.self
            /\ fs' = r.fs
            /\ last' = Called("release", r, NoFrame, last)
    /\ UNCHANGED args

Next == Construct \/ Load \/ Save \/ Exists \/ Describe \/ Release

Spec == Init /\ [][Next]_vars

----------------------------------------------------------------------------
(* Properties *)

\* the calls of one kind in a log
Calls(log, call) == {i \in 1..Len(log) : log[i].call = call}
\* the handles open after the first i calls of a log
OpenAfter(log, i) ==
    Cardinality({j \in 1..i : log[j].call = "open" /\ log[j].ok})
    - Cardinality({j \in 1..i : log[j].call = "close"})
\* the errors raised before the open step
BeforeOpen ==
    {"unsupported_target", "path_resolution", "reader_not_found", "writer_not_found"}
\* what the caller gave as fs_args.open_args_load / open_args_save
GivenOpenArgs(key) == Get(args.fs_args.d, key, Nested({})).d

\* The constructor arguments that name a non-filesystem format.
NonFsInputs ==
    { <<"c","l","i","p","b","o","a","r","d">>,
      <<"C","L","I","P","B","O","A","R","D">>,
      <<"n","u","m","p","y">>, <<"s","q","l">>, <<"S","q","l">>,
      <<"p","e","r","i","o","d">>, <<"r","e","c","o","r","d","s">>,
      <<"t","i","m","e","s","t","a","m","p">>, <<"x","a","r","r","a","y">>,
      <<"s","q","l","_","t","a","b","l","e">> }

\* C1: on an adapter whose file_format, lowercased, is a non-filesystem
\* target, every load and save raises the unsupported-target error having
\* called nothing: no path is resolved, nothing is opened, and the
\* filesystem and its cache are left as they were.
C1_UnsupportedTargetFirst ==
    [][ (args'.file_format \in NonFsInputs /\ last'.op \in {"load", "save"})
        => /\ last'.err = "unsupported_target"
           /\ last'.log = <<>>
           /\ fs' = fs ]_vars

C1_Witness ==
    /\ args.file_format = <<"S","q","l">>
    /\ last.op = "save"
    /\ last.err = "unsupported_target"

\* C2 (as claimed): after a save that returned, an existence check issued
\* next on the same adapter and resolving to the path just written answers
\* true, for unversioned and versioned adapters alike.
C2_Claim ==
    (last.op = "exists" /\ last.prev.saved /\ last.log[1].ok
       /\ last.log[1].path = last.prev.path)
    => last.flag

\* C3: every load or save that reaches the open step calls open once; a
\* handle it obtained is closed when the call returns or raises, so that at
\* most one handle is open at any moment of the call and none after it.
C3_HandleScoped ==
    /\ fs.handles = 0
    /\ last.op \in {"load", "save"} =>
         /\ (last.err \notin BeforeOpen) <=> (Cardinality(Calls(last.log, "open")) = 1)
         /\ Cardinality(Calls(last.log, "open")) <= 1
         /\ \A i \in 1..Len(last.log) : OpenAfter(last.log, i) \in {0, 1}
         /\ OpenAfter(last.log, Len(last.log)) = 0

C3_Witness ==
    /\ last.op = "save"
    /\ last.err = "cache_error"
    /\ Calls(last.log, "close") # {}
    /\ fs.handles = 0

C5_Claim ==
    (/\ last.op = "load" /\ last.err = "none" /\ last.prev.saved
     /\ args.file_format = csv
     /\ \/ ~args.version.on
        \/ args.version.load = 0
        \/ args.version.load = args.version.save)
    => last.frame = last.prev.data

\* C6: with a format that has a reader and no writer (sas), save opens
\* nothing and invalidates nothing, and once the save path is resolved it
\* raises the writer-not-found error naming to_sas; load never raises a
\* format error and returns what the reader makes of the file.
C6_ReaderOnly ==
    /\ (args.file_format = sas /\ last.op = "save") =>
         /\ Calls(last.log, "open") = {}
         /\ Calls(last.log, "invalidate_cache") = {}
         /\ Len(last.log) = 1
         /\ last.log[1].call = "get_save_path"
         /\ last.log[1].ok =>
              /\ last.err = "writer_not_found"
              /\ last.name = <<"t","o","_","s","a","s">>
    /\ (args.file_format = sas /\ last.op = "load") =>
         /\ last.err \in {"none", "path_resolution", "FileNotFoundError", "reader_error"}
         /\ last.err = "none" =>
              last.frame = Frame(0, fs.content[last.path].cols)

C6_Witness ==
    /\ args.file_format = sas
    /\ last.op = "save"
    /\ last.err = "writer_not_found"

C6_WitnessLoad ==
    /\ args.file_format = sas
    /\ last.op = "load"
    /\ last.err = "none"

\* C7: with a format outside the non-filesystem set that has no reader,
\* load raises the reader-not-found error naming read_<format> after the
\* load path was resolved and without opening anything; when the
\* resolution fails, its error is the one raised.
C7_ReaderNotFoundAfterResolution ==
    (args.file_format \in {totallyfake, latex} /\ last.op = "load") =>
        /\ Len(last.log) = 1
        /\ last.log[1].call = "get_load_path"
        /\ IF last.log[1].ok
           THEN /\ last.err = "reader_not_found"
                /\ last.name = <<"r","e","a","d","_">> \o args.file_format
           ELSE last.err = "path_resolution"

C7_Witness ==
    /\ args.file_format = latex
    /\ last.op = "load"
    /\ last.err = "path_resolution"

\* C8: the existence check raises nothing: when the load path cannot be
\* resolved it answers false and asks the backend nothing, otherwise it
\* answers what the backend's exists says of the resolved path; load and
\* save raise the resolution error.
C8_ExistsNeverRaises ==
    /\ last.op = "exists" =>
         /\ last.err = "none"
         /\ last.log[1].call = "get_load_path"
         /\ IF last.log[1].ok
            THEN /\ Len(last.log) = 2
                 /\ last.log[2].call = "exists"
                 /\ last.log[2].path = last.log[1].path
                 /\ last.flag = last.log[2].ret
                 /\ last.flag = (fs.ex[last.log[1].path] = "present")
            ELSE /\ Len(last.log) = 1
                 /\ last.flag = FALSE
    /\ (last.op \in {"load", "save"} /\ last.log # <<>> /\ ~last.log[1].ok) =>
         /\ last.err = "path_resolution"
         /\ Len(last.log) = 1

C8_Witness ==
    /\ last.op = "exists"
    /\ ~last.log[1].ok
    /\ last.flag = FALSE

C9_WitnessDefault ==
    /\ last.op = "save"
    /\ last.err = "none"
    /\ GivenOpenArgs("open_args_save") = {<<"compression", "gzip">>}
    /\ \E i \in 1..Len(last.log) :
         last.log[i].call = "open" /\ last.log[i].mode = "w"

\* C10: no call changes the adapter: its file_format stays the lowercase
\* form of the constructor's argument and every other field stays what the
\* constructor made of its arguments; describe changes nothing at all, and
\* a load, save or release changes nothing but the filesystem's content
\* and cache.
C10_Stateless ==
    [][ /\ (~ds.built /\ ds'.built) =>
              /\ ds' = NewSelf(args')
              /\ ds'.file_format = lower(args'.file_format)
        /\ ds.built => (ds' = ds /\ args' = args /\ fs'.handles = fs.handles)
        /\ last'.op = "describe" => fs' = fs ]_vars

C10_Witness ==
    /\ args.file_format = <<"C","L","I","P","B","O","A","R","D">>
    /\ ds.file_format = <<"c","l","i","p","b","o","a","r","d">>
    /\ last.op = "describe"
    /\ last.desc.file_format = <<"c","l","i","p","b","o","a","r","d">>

C10_WitnessAfterSave ==
    /\ last.op = "release"
    /\ last.prev.saved
    /\ ds = NewSelf(args)

====
